---------------------------- MODULE Spec2Model ----------------------------
(***************************************************************************)
(* The Yelp review streaming pipeline.                                     *)
(*                                                                         *)
(*   consumer  src/streaming/yelp_kinesis_consumer.py                      *)
(*             YelpReviewStreamProcessor: one process_shard thread per     *)
(*             shard, one analytics thread, shared statistics and three    *)
(*             sliding windows behind self.lock.                           *)
(*   producer  src/streaming/yelp_s3_to_kinesis_producer.py                *)
(*             YelpStreamProducer: chunked reader, batcher, put_records    *)
(*             with resubmission of the failed records.                    *)
(*                                                                         *)
(* Spec is the consumer, ProducerSpec the producer; each leaves the other  *)
(* program's variables untouched.                                          *)
(***************************************************************************)
EXTENDS Integers, Sequences, FiniteSets, TLC

\* ------------------------------------------------------------------------
\* Program constants
\* ------------------------------------------------------------------------
window_size == 300
Limit == 100
TopWords == 10
TopBusinesses == 5
chunk_size == 1048576

\* ------------------------------------------------------------------------
\* Bounds of the model
\* ------------------------------------------------------------------------
\* The clock advances at most MaxTicks times.
MaxTicks == 1
\* Largest k for which the top-k operators are examined.
MaxK == 3
\* self.batch_size, which is 25 in the source (line 19): the model sends a
\* batch as soon as it holds this many records.
batch_size == 2

\* ------------------------------------------------------------------------
\* Records in the log.  A record is the JSON object in record['Data']:
\*   ok       json.loads succeeds, data['timestamp'] is an ISO date and
\*            float(stars) succeeds (lines 97-103)
\*   text     the review text as a sequence of lower-case alphabetic tokens
\*   stars    the numeric rating; nan: the rating is the JSON literal NaN
\*   hashable business_id is a string (a JSON array or object is not
\*            hashable)
\*   ts       data['timestamp']
\* ------------------------------------------------------------------------
Rec(text, stars, biz, ts) ==
    [ok |-> TRUE, text |-> text, stars |-> stars, nan |-> FALSE,
     business_id |-> biz, hashable |-> TRUE, ts |-> ts]

GreatFood == <<"great", "food">>
BadService == <<"the", "service", "was", "terrible">>
PlainFood == <<"just", "okay", "food">>

\* stars = NaN
NanRec(ts) == [Rec(GreatFood, 0, "b1", ts) EXCEPT !.nan = TRUE]
\* business_id = ["b1"]
ListBizRec(ts) == [Rec(GreatFood, 5, "b1", ts) EXCEPT !.hashable = FALSE]
\* not JSON, or no timestamp
Malformed(ts) == [Rec(<<>>, 0, "", ts) EXCEPT !.ok = FALSE]

Shards == {"shard-0", "shard-1", "shard-2"}
Reporter == "reporter"
Free == "free"

\* The contents of the three shards when the consumer starts.
Scenario(a, b, c) == ("shard-0" :> a) @@ ("shard-1" :> b) @@ ("shard-2" :> c)

Scenarios ==
    { \* the same five-star review everywhere, once without a business
      Scenario(<<Rec(GreatFood, 5, "b1", 1), Rec(GreatFood, 5, "b1", 2)>>,
               <<Rec(GreatFood, 5, "b1", 3)>>,
               <<Rec(GreatFood, 5, "", 4)>>),
      \* ratings with text that agrees and disagrees; ties between terms
      \* and between businesses
      Scenario(<<Rec(PlainFood, 3, "b2", 1)>>,
               <<Rec(BadService, 4, "b1", 2), Rec(BadService, 1, "b1", 3)>>,
               <<Rec(GreatFood, 2, "b2", 4)>>),
      \* records that process_record cannot handle
      Scenario(<<NanRec(1), Rec(GreatFood, 5, "b1", 2)>>,
               <<Malformed(3), ListBizRec(4)>>,
               <<>>) }

\* ------------------------------------------------------------------------
\* State
\* ------------------------------------------------------------------------
VARIABLES
    \* the log (external): the records of each shard
    shardData,
    \* process_shard, per shard
    pc,          \* where the thread is
    cursor,      \* shard_iterator: <<position>>, or <<>> for None
    records,     \* the records of the current fetch still to be processed
    nextIter,    \* response.get('NextShardIterator')
    \* YelpReviewStreamProcessor
    lock,        \* self.lock: Free or the thread holding it
    stats,
    business_mentions,
    review_window,
    word_window,
    rating_window,
    \* the analytics thread
    rpc,
    snap,        \* what print_analytics has read so far in this call
    \* datetime.now()
    clock,
    ticks,
    \* history
    fetchOk,     \* shards with a get_records call that returned
    fetchErr,    \* shards with a get_records call that raised
    iterErr,     \* shards with a get_shard_iterator call that raised
    handed,      \* per shard: records passed to process_record
    appended,    \* per shard: entries appended to the windows
    evicted,     \* entries popped from review_window
    saved,       \* the shared state when the lock was last acquired
    main         \* where consume_stream is

\* The producer's state
VARIABLES
    \* the S3 object (external): its bytes
    source,
    max_records, \* the cap given to process_yelp_reviews; 0 for None
    offset,      \* bytes of the body already yielded by iter_chunks
    ppc,         \* where process_yelp_reviews is
    buffer,
    lines,       \* lines[:-1] of the current chunk still to be looked at
    records_processed,
    record_batch,
    total_sent,
    caller,      \* where the outermost send_batch call returns to
    \* the stream (external): the records put_records has accepted
    log,
    \* history
    added,       \* the reviews passed to add_to_batch
    readErr      \* reading the body raised

producerVars ==
    <<source, max_records, offset, ppc, buffer, lines, records_processed,
      record_batch, total_sent, caller, log, added, readErr>>

consumerVars ==
    <<shardData, pc, cursor, records, nextIter, lock, stats,
      business_mentions, review_window, word_window, rating_window, rpc,
      snap, clock, ticks, fetchOk, fetchErr, iterErr, handed, appended,
      evicted, saved, main>>

vars == <<consumerVars, producerVars>>

shared == <<stats, business_mentions, review_window, word_window, rating_window>>

\* ------------------------------------------------------------------------
\* Pure functions of the consumer
\* ------------------------------------------------------------------------
stop_words ==
    {"the", "and", "was", "for", "with", "but", "this", "that", "have",
     "had", "were", "been", "their", "would", "there", "could", "when",
     "where", "what", "from", "they", "will", "just", "into", "your",
     "more", "very", "than", "then", "them", "some", "only", "also",
     "which", "about", "after"}

KeepWordShort(word) == Len(word) > 4 /\ word \notin stop_words

KeepWord(word) == Len(word) > 3 /\ word \notin stop_words

\* preprocess_text: the tokens are lower-case and alphabetic already, so
\* re.sub and lower() leave them as they are; split() yields the tokens.
preprocess_text(text) == SelectSeq(text, KeepWord)

\* TextBlob(text).sentiment.polarity, in tenths.
TextBlobPolarity(text) ==
    IF \E i \in 1..Len(text) : text[i] = "terrible" THEN -10
    ELSE IF \E i \in 1..Len(text) : text[i] = "great" THEN 8
    ELSE 0

Abs(x) == IF x < 0 THEN -x ELSE x

\* stars <= 2 and stars == 3 are both False for NaN
expected_sentiment(rec) ==
    IF ~rec.nan /\ rec.stars <= 2 THEN "negative"
    ELSE IF ~rec.nan /\ rec.stars = 3 THEN "neutral"
    ELSE "positive"

text_based(text_sentiment) ==
    IF text_sentiment > 1 THEN "positive"
    ELSE IF text_sentiment < -1 THEN "negative"
    ELSE "neutral"

final_sentiment_text(expected, textual) ==
    IF expected = textual THEN expected ELSE textual

final_sentiment(expected, textual) ==
    IF expected = textual THEN expected ELSE expected

analyze_review_sentiment(rec) ==
    LET text_sentiment == TextBlobPolarity(rec.text)
        expected == expected_sentiment(rec)
    IN  [final |-> final_sentiment(expected, text_based(text_sentiment)),
         text_score |-> text_sentiment,
         star_based |-> expected,
         confidence |-> Abs(text_sentiment)]

\* the assignment d[k] = 1 in the place of d[k] += 1
IncrOverwrite(d, k) == [x \in DOMAIN d \ {k} |-> d[x]] @@ (k :> 1)

\* d[k] -= 1 in the place of d[k] += 1
IncrDown(d, k) ==
    IF k \in DOMAIN d THEN [d EXCEPT ![k] = @ - 1] ELSE d @@ (k :> -1)

\* d[k] += 1 on a defaultdict(int)
Incr(d, k) ==
    IF k \in DOMAIN d THEN [d EXCEPT ![k] = @ + 1] ELSE d @@ (k :> 1)

\* window.pop() in the place of window.popleft()
RECURSIVE PopStaleRight(_, _)
PopStaleRight(window, cutoff_time) ==
    IF window # <<>> /\ window[1].added_at < cutoff_time
    THEN PopStaleRight(SubSeq(window, 1, Len(window) - 1), cutoff_time)
    ELSE window

RECURSIVE PopStale(_, _)
PopStale(window, cutoff_time) ==
    IF window # <<>> /\ window[1].added_at < cutoff_time
    THEN PopStale(Tail(window), cutoff_time)
    ELSE window

\* clean_windows, for one of the three windows
clean_window(window, current_time) ==
    PopStale(window, current_time - window_size)

\* Counter(items): <<item, count>> pairs in first-seen order
RECURSIVE Counter(_)
Counter(items) ==
    IF items = <<>> THEN <<>>
    ELSE LET n == Len(items)
             before == Counter(SubSeq(items, 1, n - 1))
             at == {i \in 1..Len(before) : before[i][1] = items[n]}
         IN  IF at = {}
             THEN Append(before, <<items[n], 1>>)
             ELSE LET i == CHOOSE j \in at : TRUE
                  IN  [before EXCEPT ![i] = <<@[1], @[2] + 1>>]

\* sorted(..., key=count, reverse=True) is stable: an item goes after
\* every item whose count is at least its own.
RECURSIVE InsertByCount(_, _)
InsertByCount(sorted, item) ==
    IF sorted = <<>> THEN <<item>>
    ELSE IF sorted[1][2] >= item[2]
         THEN <<sorted[1]>> \o InsertByCount(Tail(sorted), item)
         ELSE <<item>> \o sorted

RECURSIVE InsertByCountLast(_, _)
InsertByCountLast(sorted, item) ==
    IF sorted = <<>> THEN <<item>>
    ELSE IF sorted[1][2] > item[2]
         THEN <<sorted[1]>> \o InsertByCountLast(Tail(sorted), item)
         ELSE <<item>> \o sorted

RECURSIVE SortByCount(_)
SortByCount(pairs) ==
    IF pairs = <<>> THEN <<>>
    ELSE InsertByCount(SortByCount(SubSeq(pairs, 1, Len(pairs) - 1)),
                       pairs[Len(pairs)])

RECURSIVE SortByCountLast(_)
SortByCountLast(pairs) ==
    IF pairs = <<>> THEN <<>>
    ELSE InsertByCountLast(SortByCountLast(SubSeq(pairs, 1, Len(pairs) - 1)),
                           pairs[Len(pairs)])

most_common_unstable(items, n) ==
    LET sorted == SortByCountLast(Counter(items))
    IN  SubSeq(sorted, 1, IF n < Len(sorted) THEN n ELSE Len(sorted))

\* Counter(items).most_common(n)
most_common(items, n) ==
    LET sorted == SortByCount(Counter(items))
    IN  SubSeq(sorted, 1, IF n < Len(sorted) THEN n ELSE Len(sorted))

RECURSIVE Flatten(_)
Flatten(lists) ==
    IF lists = <<>> THEN <<>> ELSE Head(lists) \o Flatten(Tail(lists))

AllWords(words) == Flatten([i \in 1..Len(words) |-> words[i].words])

get_trending_words(words, top_n) == most_common(AllWords(words), top_n)

\* every entry is kept, also one without a business
AnyBusiness(r) == TRUE

\* line 179: if r['business_id']
HasBusiness(r) == r.business_id # ""

RecentBusinesses(reviews) ==
    LET kept == SelectSeq(reviews, HasBusiness)
    IN  [i \in 1..Len(kept) |-> kept[i].business_id]

get_trending_businesses(reviews, top_n) ==
    most_common(RecentBusinesses(reviews), top_n)

RECURSIVE SumStars(_)
SumStars(reviews) ==
    IF reviews = <<>> THEN 0 ELSE Head(reviews).stars + SumStars(Tail(reviews))

CountOf(pairs, key) ==
    LET at == {i \in 1..Len(pairs) : pairs[i][1] = key}
    IN  IF at = {} THEN 0 ELSE pairs[CHOOSE i \in at : TRUE][2]

\* get_sentiment_trends; None is <<>>, a quotient is <<numerator, denominator>>
get_sentiment_trends(reviews) ==
    IF reviews = <<>> THEN <<>>
    ELSE LET sentiment_counts ==
                 Counter([i \in 1..Len(reviews) |-> reviews[i].sentiment.final])
         IN  <<[distribution |-> sentiment_counts,
                window_size |-> Len(reviews),
                average_stars |-> <<SumStars(reviews), Len(reviews)>>,
                positive_ratio |->
                    <<CountOf(sentiment_counts, "positive"), Len(reviews)>>]>>


RECURSIVE SumDict(_)
SumDict(d) ==
    IF DOMAIN d = {} THEN 0
    ELSE LET k == CHOOSE x \in DOMAIN d : TRUE
         IN  d[k] + SumDict([x \in DOMAIN d \ {k} |-> d[x]])

Min(a, b) == IF a < b THEN a ELSE b

\* ------------------------------------------------------------------------
\* Consumer: initial state (YelpReviewStreamProcessor.__init__, then
\* consume_stream has started one thread per shard and the analytics thread)
\* ------------------------------------------------------------------------
NoSnap == [stats |-> <<>>, windows |-> <<>>]

ConsumerStart(scenarios) ==
    /\ shardData \in scenarios
    /\ pc = [s \in Shards |-> "start"]
    /\ cursor = [s \in Shards |-> <<>>]
    /\ records = [s \in Shards |-> <<>>]
    /\ nextIter = [s \in Shards |-> <<>>]
    /\ lock = Free
    /\ stats = [total_reviews |-> 0,
                total_words |-> 0,
                sentiment_distribution |-> <<>>,
                rating_distribution |-> <<>>,
                avg_review_length |-> <<0, 1>>]
    /\ business_mentions = <<>>
    /\ review_window = <<>>
    /\ word_window = <<>>
    /\ rating_window = <<>>
    /\ rpc = "sleep"
    /\ snap = NoSnap
    /\ clock = 0
    /\ ticks = 0
    /\ fetchOk = {}
    /\ fetchErr = {}
    /\ iterErr = {}
    /\ handed = [s \in Shards |-> 0]
    /\ appended = [s \in Shards |-> 0]
    /\ evicted = 0
    /\ saved = <<>>
    /\ main = "join"

\* what no thread started by consume_stream changes
logVars == <<shardData, main, producerVars>>
timeVars == <<clock, ticks>>
stateVars == <<stats, business_mentions, review_window, word_window, rating_window>>
reporterVars == <<rpc, snap>>
fetchHistory == <<fetchOk, fetchErr, iterErr>>

\* ------------------------------------------------------------------------
\* lines 346-367: consume_stream is the last statement of the program, and
\* its threads are daemon threads: they run as long as it has not returned
\* ------------------------------------------------------------------------
Running == main = "join"

\* ------------------------------------------------------------------------
\* self.lock
\* ------------------------------------------------------------------------
AcquireNoWait(t) == lock' = t

\* with self.lock: entered by thread t
Acquire(t) == lock = Free /\ lock' = t

\* the with block is left and the lock stays taken
ReleaseNever == UNCHANGED lock

\* leaving the with block, normally or by an exception
Release == lock' = Free

\* ------------------------------------------------------------------------
\* process_shard
\* ------------------------------------------------------------------------
\* lines 276-284 and 330-331: the first cursor, from TRIM_HORIZON
GetShardIterator(s) ==
    /\ Running
    /\ pc[s] = "start"
    /\ \/ /\ cursor' = [cursor EXCEPT ![s] = <<0>>]
          /\ pc' = [pc EXCEPT ![s] = "fetch"]
          /\ UNCHANGED iterErr
       \/ /\ pc' = [pc EXCEPT ![s] = "failed"]
          /\ iterErr' = iterErr \cup {s}
          /\ UNCHANGED cursor
    /\ UNCHANGED <<logVars, records, nextIter, lock, stateVars, reporterVars,
                   timeVars, fetchOk, fetchErr, handed, appended, evicted,
                   saved>>

\* the loop goes on with the cursor it had
UpdateIteratorKeep(s, next) ==
    /\ UNCHANGED cursor
    /\ pc' = [pc EXCEPT ![s] = IF next = <<>> THEN "closed" ELSE "fetch"]

\* lines 310-314: the cursor is replaced by the one the fetch returned, and
\* the loop ends when there is none
UpdateIterator(s, next) ==
    /\ cursor' = [cursor EXCEPT ![s] = next]
    /\ pc' = [pc EXCEPT ![s] = IF next = <<>> THEN "closed" ELSE "fetch"]

\* lines 289-308 and 316-318: one get_records call.  The log returns up to
\* Limit of the records after the cursor, possibly none, and no next
\* iterator once the end of the shard has been returned.
GetRecords(s) ==
    /\ Running
    /\ pc[s] = "fetch"
    /\ LET data == shardData[s]
           pos == cursor[s][1]
       IN  \/ \E k \in 0..Min(Limit, Len(data) - pos) :
                LET next == IF pos + k = Len(data) THEN <<>> ELSE <<pos + k>>
                IN  /\ records' = [records EXCEPT ![s] = SubSeq(data, pos + 1, pos + k)]
                    /\ nextIter' = [nextIter EXCEPT ![s] = next]
                    /\ IF k > 0
                       THEN pc' = [pc EXCEPT ![s] = "record"] /\ UNCHANGED cursor
                       ELSE UpdateIterator(s, next)
                    /\ fetchOk' = fetchOk \cup {s}
                    /\ UNCHANGED fetchErr
           \/ /\ pc' = [pc EXCEPT ![s] = "reacquire"]
              /\ fetchErr' = fetchErr \cup {s}
              /\ UNCHANGED <<records, nextIter, fetchOk, cursor>>
    /\ UNCHANGED <<logVars, lock, stateVars, reporterVars, timeVars,
                   iterErr, handed, appended, evicted, saved>>

ReacquireGiveUp(s) ==
    /\ Running
    /\ pc[s] = "reacquire"
    /\ pc' = [pc EXCEPT ![s] = "failed"]
    /\ UNCHANGED <<logVars, cursor, records, nextIter, lock, stateVars,
                   reporterVars, timeVars, fetchHistory, handed, appended,
                   evicted, saved>>

\* the new cursor is taken from TRIM_HORIZON
ReacquireFromStart(s) ==
    /\ Running
    /\ pc[s] = "reacquire"
    /\ cursor' = [cursor EXCEPT ![s] = <<0>>]
    /\ pc' = [pc EXCEPT ![s] = "fetch"]
    /\ UNCHANGED <<logVars, records, nextIter, lock, stateVars, reporterVars,
                   timeVars, fetchHistory, handed, appended, evicted, saved>>

\* lines 319-328: a new cursor, from LATEST, after a failed fetch
Reacquire(s) ==
    /\ Running
    /\ pc[s] = "reacquire"
    /\ \/ /\ cursor' = [cursor EXCEPT ![s] = <<Len(shardData[s])>>]
          /\ pc' = [pc EXCEPT ![s] = "fetch"]
          /\ UNCHANGED iterErr
       \/ /\ pc' = [pc EXCEPT ![s] = "failed"]
          /\ iterErr' = iterErr \cup {s}
          /\ UNCHANGED cursor
    /\ UNCHANGED <<logVars, records, nextIter, lock, stateVars, reporterVars,
                   timeVars, fetchOk, fetchErr, handed, appended, evicted,
                   saved>>

\* ------------------------------------------------------------------------
\* process_record, called for records[s][1]
\* ------------------------------------------------------------------------
\* process_record has returned: back in the for loop of line 302, and
\* after the last record of the fetch at lines 310-314
NextRecordBreak(s) ==
    /\ records' = [records EXCEPT ![s] = <<>>]
    /\ UpdateIterator(s, nextIter[s])

NextRecord(s) ==
    /\ records' = [records EXCEPT ![s] = Tail(@)]
    /\ IF Len(records[s]) > 1
       THEN pc' = [pc EXCEPT ![s] = "record"] /\ UNCHANGED cursor
       ELSE UpdateIterator(s, nextIter[s])

\* the exception leaves process_record and ends the thread of the shard
Propagated(s) ==
    /\ pc' = [pc EXCEPT ![s] = "failed"]
    /\ UNCHANGED <<records, cursor>>

\* lines 157-158: the exception is caught and printed, and process_record
\* returns
Contained(s) == NextRecord(s)

\* lines 97-112: the record is decoded and its words and sentiment are
\* computed, then the lock is taken; lines 157-158 when decoding raises
EnterRecord(s) ==
    /\ Running
    /\ pc[s] = "record"
    /\ handed' = [handed EXCEPT ![s] = @ + 1]
    /\ IF records[s][1].ok
       THEN /\ Acquire(s)
            /\ pc' = [pc EXCEPT ![s] = "stats"]
            /\ saved' = shared
            /\ UNCHANGED <<records, cursor>>
       ELSE /\ Contained(s)
            /\ UNCHANGED <<lock, saved>>
    /\ UNCHANGED <<logVars, nextIter, stateVars, reporterVars,
                   timeVars, fetchHistory, appended, evicted>>

\* lines 114-119; int(stars) of line 117 raises for NaN
UpdateStats(s) ==
    /\ Running
    /\ pc[s] = "stats"
    /\ LET rec == records[s][1]
           words == preprocess_text(rec.text)
           sentiment_result == analyze_review_sentiment(rec)
           counted == [stats EXCEPT
                          !.total_reviews = @ + 1,
                          !.total_words = @ + Len(words),
                          !.sentiment_distribution = Incr(@, sentiment_result.final)]
       IN  IF rec.nan
           THEN /\ stats' = counted
                /\ Release
                /\ saved' = <<>>
                /\ Contained(s)
           ELSE /\ stats' = [counted EXCEPT
                                !.rating_distribution = Incr(@, rec.stars),
                                !.avg_review_length =
                                    <<counted.total_words, counted.total_reviews>>]
                /\ pc' = [pc EXCEPT ![s] = "windows"]
                /\ UNCHANGED <<records, cursor, lock, saved>>
    /\ UNCHANGED <<logVars, nextIter, business_mentions, review_window,
                   word_window, rating_window, reporterVars, timeVars,
                   fetchHistory, handed, appended, evicted>>

\* deque.appendleft(entry)
WindowAppendLeft(window, entry) == <<entry>> \o window

\* the entry of word_window, the one without stars, is not appended
WindowAppendRated(window, entry) ==
    IF "stars" \in DOMAIN entry THEN Append(window, entry) ELSE window

\* lines 128-146: deque.append(entry)
WindowAppend(window, entry) == Append(window, entry)

\* lines 121-149; line 123 raises for a business_id that cannot be a key
AppendWindows(s) ==
    /\ Running
    /\ pc[s] = "windows"
    /\ LET rec == records[s][1]
           current_time == clock
           appendedReviews ==
               WindowAppend(review_window,
                            [timestamp |-> rec.ts,
                             added_at |-> current_time,
                             sentiment |-> analyze_review_sentiment(rec),
                             stars |-> rec.stars,
                             business_id |-> rec.business_id])
           appendedWords ==
               WindowAppend(word_window,
                            [words |-> preprocess_text(rec.text),
                             timestamp |-> rec.ts,
                             added_at |-> current_time])
           appendedRatings ==
               WindowAppend(rating_window,
                            [stars |-> rec.stars,
                             timestamp |-> rec.ts,
                             added_at |-> current_time])
       IN  IF rec.business_id # "" /\ ~rec.hashable
           THEN /\ Release
                /\ saved' = <<>>
                /\ Contained(s)
                /\ UNCHANGED <<business_mentions, review_window, word_window,
                               rating_window, appended, evicted>>
           ELSE /\ business_mentions' =
                       IF rec.business_id # ""
                       THEN Incr(business_mentions, rec.business_id)
                       ELSE business_mentions
                /\ review_window' = clean_window(appendedReviews, current_time)
                /\ word_window' = clean_window(appendedWords, current_time)
                /\ rating_window' = clean_window(appendedRatings, current_time)
                /\ appended' = [appended EXCEPT ![s] = @ + 1]
                /\ evicted' = evicted + Len(appendedReviews) - Len(review_window')
                /\ pc' = [pc EXCEPT ![s] = "print"]
                /\ UNCHANGED <<records, cursor, lock, saved>>
    /\ UNCHANGED <<logVars, nextIter, stats, reporterVars, timeVars,
                   fetchHistory, handed>>

\* lines 151-155, then the with block ends
PrintResult(s) ==
    /\ Running
    /\ pc[s] = "print"
    /\ Release
    /\ saved' = <<>>
    /\ NextRecord(s)
    /\ UNCHANGED <<logVars, nextIter, stateVars, reporterVars, timeVars,
                   fetchHistory, handed, appended, evicted>>

\* ------------------------------------------------------------------------
\* The analytics thread: analytics_loop and print_analytics
\* ------------------------------------------------------------------------
pollerVars == <<pc, cursor, records, nextIter>>
history == <<fetchOk, fetchErr, iterErr, handed, appended, evicted, saved>>

\* line 263 has elapsed; lines 202-226: the lock is taken and the running
\* totals are read
ReportStats ==
    /\ Running
    /\ rpc = "sleep"
    /\ Acquire(Reporter)
    /\ snap' = [snap EXCEPT !.stats = <<stats>>]
    /\ rpc' = "windows"
    /\ UNCHANGED <<logVars, pollerVars, stateVars, timeVars, history>>

\* a read that takes the head entry out of the deque
IteratedAway(window) == IF window = <<>> THEN window ELSE Tail(window)

\* lines 172, 179, 187 and 193: a loop over a deque leaves it as it is
Iterated(window) == window

\* lines 228-252: the three reads of the windows
ReportWindows ==
    /\ Running
    /\ rpc = "windows"
    /\ snap' = [snap EXCEPT !.windows =
                   <<[at |-> clock,
                      trending_words |-> get_trending_words(word_window, TopWords),
                      trends |-> get_sentiment_trends(review_window),
                      trending_biz |->
                          get_trending_businesses(review_window, TopBusinesses),
                      added_at |->
                          {review_window[i].added_at : i \in 1..Len(review_window)}
                          \cup {word_window[i].added_at : i \in 1..Len(word_window)},
                      appended |-> Len(review_window) + evicted]>>]
    /\ rpc' = "print"
    /\ review_window' = Iterated(review_window)
    /\ word_window' = Iterated(word_window)
    /\ rating_window' = Iterated(rating_window)
    /\ UNCHANGED <<logVars, pollerVars, lock, stats, business_mentions,
                   timeVars, history>>

\* line 254, then the with block ends and print_analytics returns
ReportRelease ==
    /\ Running
    /\ rpc = "print"
    /\ Release
    /\ snap' = NoSnap
    /\ rpc' = "sleep"
    /\ UNCHANGED <<logVars, pollerVars, stateVars, timeVars, history>>

\* ------------------------------------------------------------------------
\* Time
\* ------------------------------------------------------------------------
TickSteps == {window_size, window_size + 1}

Tick ==
    /\ Running
    /\ ticks < MaxTicks
    /\ \E d \in TickSteps : clock' = clock + d
    /\ ticks' = ticks + 1
    /\ UNCHANGED <<logVars, pollerVars, lock, stateVars, reporterVars, history>>

\* ------------------------------------------------------------------------
\* consume_stream, after the threads are started
\* ------------------------------------------------------------------------
\* some thread has ended
AnyJoined == \E s \in Shards : pc[s] \in {"closed", "failed"}

\* lines 357-358: thread.join() has returned for every shard's thread
AllJoined == \A s \in Shards : pc[s] \in {"closed", "failed"}

threadVars == <<pollerVars, lock, stateVars, reporterVars, timeVars, history>>

\* lines 356-358: the loop over the threads ends and consume_stream returns
JoinThreads ==
    /\ main = "join"
    /\ AllJoined
    /\ main' = "returned"
    /\ UNCHANGED <<shardData, producerVars, threadVars>>

\* lines 359-360: Ctrl-C while joining; consume_stream prints and returns
KeyboardInterrupt ==
    /\ main = "join"
    /\ main' = "interrupted"
    /\ UNCHANGED <<shardData, producerVars, threadVars>>

ConsumerNext ==
    \/ \E s \in Shards :
          \/ GetShardIterator(s)
          \/ GetRecords(s)
          \/ Reacquire(s)
          \/ EnterRecord(s)
          \/ UpdateStats(s)
          \/ AppendWindows(s)
          \/ PrintResult(s)
    \/ ReportStats
    \/ ReportWindows
    \/ ReportRelease
    \/ Tick
    \/ JoinThreads

\* ------------------------------------------------------------------------
\* Producer: the body of the S3 object
\*
\* A byte is an ASCII character, or one of the two bytes C3 A9 of the
\* character written E here.  NL is the line feed; a line holding "!" is not
\* JSON; " " is white space; any other character stands for the JSON text
\* of one review.
\* ------------------------------------------------------------------------
NL == "NL"

Sources ==
    { <<"a", NL, "b", NL, "c", NL>>,
      <<"a", "C3", "A9", NL, "b", NL>>,
      <<"a", NL, "!", NL, " ", NL, "b">>,
      <<"a", NL, "!", NL, "b", NL>>,
      <<"a", NL, "b", NL, "a", "x", NL>>,
      <<"a", NL, "a", "x", NL>> }

Caps == {0, 2}

\* chunk.decode('utf-8', errors='ignore'): a byte that does not belong to a
\* complete character of this chunk is left out
RECURSIVE Utf8Decode(_)
Utf8Decode(bytes) ==
    IF bytes = <<>> THEN <<>>
    ELSE IF bytes[1] = "C3"
         THEN IF Len(bytes) >= 2 /\ bytes[2] = "A9"
              THEN <<"E">> \o Utf8Decode(SubSeq(bytes, 3, Len(bytes)))
              ELSE Utf8Decode(Tail(bytes))
         ELSE IF bytes[1] = "A9"
              THEN Utf8Decode(Tail(bytes))
              ELSE <<bytes[1]>> \o Utf8Decode(Tail(bytes))

\* str.split('\n')
RECURSIVE Split(_)
Split(chars) ==
    LET at == {i \in 1..Len(chars) : chars[i] = NL}
    IN  IF at = {} THEN <<chars>>
        ELSE LET i == CHOOSE j \in at : \A k \in at : j <= k
             IN  <<SubSeq(chars, 1, i - 1)>> \o Split(SubSeq(chars, i + 1, Len(chars)))

\* not line.strip()
Blank(line) == \A i \in 1..Len(line) : line[i] = " "

\* json.loads(line) raises JSONDecodeError
Invalid(line) == \E i \in 1..Len(line) : line[i] = "!"

\* max_records and records_processed >= max_records
CapReached(cap, n) == cap # 0 /\ n >= cap

\* line 71: the user_id of a parsed line.  The lines that begin with a are
\* of one user and those that begin with b of another, whose identifier
\* has the same first ten characters; the others have a short identifier.
user_id(line) ==
    IF Head(line) = "a"
    THEN <<"u", "s", "e", "r", "0", "1", "2", "3", "4", "5", "a", "a">>
    ELSE IF Head(line) = "b"
    THEN <<"u", "s", "e", "r", "0", "1", "2", "3", "4", "5", "b", "b">>
    ELSE <<"u", "7">>

\* lines 62-73: the review built from a parsed line
processed_review(line) == [text |-> line, user_id |-> user_id(line)]

\* line 115: the number of characters of user_id in the partition key
KeyLen == 10

\* the whole of user_id as the key
partition_key_whole(review) == review.user_id

\* line 115: review.get('user_id', 'default')[:10]
partition_key(review) ==
    SubSeq(review.user_id, 1, IF Len(review.user_id) < KeyLen
                              THEN Len(review.user_id) ELSE KeyLen)

\* lines 113-116: the record add_to_batch builds
BatchRecord(review) == [Data |-> review, PartitionKey |-> partition_key(review)]

\* ------------------------------------------------------------------------
\* Producer: initial state (YelpStreamProducer.__init__, and
\* process_yelp_reviews up to line 36)
\* ------------------------------------------------------------------------
ProducerStart(sources, caps) ==
    /\ source \in sources
    /\ max_records \in caps
    /\ offset = 0
    /\ ppc = "read"
    /\ buffer = <<>>
    /\ lines = <<>>
    /\ records_processed = 0
    /\ record_batch = <<>>
    /\ total_sent = 0
    /\ caller = "none"
    /\ log = <<>>
    /\ added = <<>>
    /\ readErr = FALSE

externalVars == <<source, max_records>>
readerVars == <<offset, buffer, lines, records_processed, readErr>>
batchVars == <<record_batch, total_sent, caller, log>>

\* lines 39-47: the next chunk of the body
ReadChunk ==
    /\ ppc = "read"
    /\ offset < Len(source)
    /\ \E k \in 1..Min(chunk_size, Len(source) - offset) :
          LET chunk == SubSeq(source, offset + 1, offset + k)
              split == Split(buffer \o Utf8Decode(chunk))
          IN  /\ offset' = offset + k
              /\ buffer' = split[Len(split)]
              /\ lines' = SubSeq(split, 1, Len(split) - 1)
    /\ ppc' = "lines"
    /\ UNCHANGED <<consumerVars, externalVars, records_processed, readErr,
                   batchVars, added>>

\* the body is exhausted: the for loop of line 39 ends
EndOfBody ==
    /\ ppc = "read"
    /\ offset = Len(source)
    /\ ppc' = "finally"
    /\ UNCHANGED <<consumerVars, externalVars, readerVars, batchVars, added>>

\* lines 102-103: get_object or the body's iterator raises
ReadError ==
    /\ ppc = "read"
    /\ readErr' = TRUE
    /\ ppc' = "finally"
    /\ UNCHANGED <<consumerVars, externalVars, offset, buffer, lines,
                   records_processed, batchVars, added>>

\* the error leaves the loops and is handled as a read error, at line 102
InvalidLineRaises ==
    /\ ppc' = "finally"
    /\ UNCHANGED <<lines, records_processed, record_batch, caller, added>>

\* lines 91-93: the warning, then the loop goes on with the next line
InvalidLineSkipped ==
    /\ lines' = Tail(lines)
    /\ UNCHANGED <<ppc, records_processed, record_batch, caller, added>>

\* lines 50-100: one turn of the loop over the complete lines, or its end
ProcessLine ==
    /\ ppc = "lines"
    /\ IF lines = <<>>
       THEN \* lines 98-100
            /\ ppc' = IF CapReached(max_records, records_processed)
                      THEN "finally" ELSE "read"
            /\ UNCHANGED <<lines, records_processed, record_batch, caller, added>>
       ELSE LET line == Head(lines)
            IN  IF Blank(line)
                THEN \* lines 51-52
                     /\ lines' = Tail(lines)
                     /\ UNCHANGED <<ppc, records_processed, record_batch, caller,
                                    added>>
                ELSE IF CapReached(max_records, records_processed)
                THEN \* lines 54-55, then 99-100
                     /\ ppc' = "finally"
                     /\ UNCHANGED <<lines, records_processed, record_batch,
                                    caller, added>>
                ELSE IF Invalid(line)
                THEN InvalidLineSkipped
                ELSE \* lines 59-77, with add_to_batch (lines 113-120)
                     LET review == processed_review(line)
                     IN  /\ lines' = Tail(lines)
                         /\ added' = Append(added, review)
                         /\ record_batch' = Append(record_batch, BatchRecord(review))
                         /\ records_processed' = records_processed + 1
                         /\ IF Len(record_batch') >= batch_size
                            THEN ppc' = "send" /\ caller' = "lines"
                            ELSE UNCHANGED <<ppc, caller>>
    /\ UNCHANGED <<consumerVars, externalVars, offset, buffer, readErr,
                   total_sent, log>>

\* lines 104-109
Finally ==
    /\ ppc = "finally"
    /\ IF record_batch # <<>>
       THEN ppc' = "send" /\ caller' = "finally"
       ELSE ppc' = "done" /\ UNCHANGED caller
    /\ UNCHANGED <<consumerVars, externalVars, readerVars, record_batch,
                   total_sent, log, added>>

\* ------------------------------------------------------------------------
\* send_batch: one put_records call of a non-empty batch
\* ------------------------------------------------------------------------
Pick(seq, keep) ==
    LET F[i \in 0..Len(seq)] ==
            IF i = 0 THEN <<>>
            ELSE IF i \in keep THEN Append(F[i - 1], seq[i]) ELSE F[i - 1]
    IN  F[Len(seq)]

\* every send_batch call on the stack returns: lines 146 and 120, or 107
Return ==
    /\ ppc' = IF caller = "lines" THEN "lines" ELSE "done"
    /\ caller' = "none"

\* the whole batch again, whatever the outcomes
failed_records_all(batch, failed) == batch

\* lines 137-140: the records of the batch whose outcome carries an ErrorCode
failed_records(batch, failed) == Pick(batch, failed)

\* the count of the last batch in the place of the running count
SentCountLast(before, batch) == Len(batch)

\* line 148
SentCount(before, batch) == before + Len(batch)

\* lines 128-149: put_records answers; the records in failed carry an
\* ErrorCode, the others are in the stream
PutRecords ==
    /\ ppc = "send"
    /\ \E failed \in SUBSET (1..Len(record_batch)) :
          /\ log' = log \o Pick(record_batch, (1..Len(record_batch)) \ failed)
          /\ IF failed # {}
             THEN \* lines 137-146: the recursive call
                  /\ record_batch' = failed_records(record_batch, failed)
                  /\ UNCHANGED <<ppc, caller, total_sent>>
             ELSE \* lines 148-149
                  /\ total_sent' = SentCount(total_sent, record_batch)
                  /\ record_batch' = <<>>
                  /\ Return
    /\ UNCHANGED <<consumerVars, externalVars, readerVars, added>>

\* the exception handler empties the batch
PutRaisesDrop ==
    /\ ppc = "send"
    /\ Return
    /\ record_batch' = <<>>
    /\ UNCHANGED <<consumerVars, externalVars, readerVars, total_sent, log,
                   added>>

\* lines 151-153: put_records raises
PutRaises ==
    /\ ppc = "send"
    /\ Return
    /\ UNCHANGED <<consumerVars, externalVars, readerVars, record_batch,
                   total_sent, log, added>>

ProducerNext ==
    \/ ReadChunk
    \/ EndOfBody
    \/ ReadError
    \/ ProcessLine
    \/ Finally
    \/ PutRecords
    \/ PutRaises

\* ------------------------------------------------------------------------
\* Specifications
\* ------------------------------------------------------------------------
NoShards == Scenario(<<>>, <<>>, <<>>)

\* the consumer, over each of the scenarios; the producer does not run
Init == ConsumerStart(Scenarios) /\ ProducerStart({<<>>}, {0})

Next == ConsumerNext

Spec == Init /\ [][Next]_vars

\* Every thread that can take a step eventually takes one, a thread waiting
\* for the lock eventually gets it, and a fetch that can return something
\* new eventually does (a fetch that changes nothing is a stuttering step).
PollerStep(s) ==
    \/ GetShardIterator(s)
    \/ GetRecords(s)
    \/ Reacquire(s)
    \/ EnterRecord(s)
    \/ UpdateStats(s)
    \/ AppendWindows(s)
    \/ PrintResult(s)

Fairness ==
    /\ \A s \in Shards : WF_vars(PollerStep(s)) /\ SF_vars(EnterRecord(s))
    /\ WF_vars(ReportWindows \/ ReportRelease)

\* the shards of the fair specification: a review, a review whose
\* business_id is a list, and an empty shard
FairScenarios ==
    {Scenario(<<Rec(GreatFood, 5, "b1", 1)>>, <<ListBizRec(2)>>, <<>>)}

FairInit == ConsumerStart(FairScenarios) /\ ProducerStart({<<>>}, {0})

FairSpec == FairInit /\ [][Next]_vars /\ Fairness

\* line 263: the sleep of the analytics thread ends, and the thread takes
\* the lock when it stays free
LockFairness == Fairness /\ WF_vars(ReportStats)

LockSpec == FairInit /\ [][Next]_vars /\ LockFairness

\* the consumer when Ctrl-C can be pressed at any moment
CancelNext == Next \/ KeyboardInterrupt

CancelSpec == FairInit /\ [][CancelNext]_vars

\* the producer, over each source and cap; the consumer does not run
ProducerInit == ProducerStart(Sources, Caps) /\ ConsumerStart({NoShards})

ProducerSpec == ProducerInit /\ [][ProducerNext]_vars

\* ------------------------------------------------------------------------
\* Properties of the consumer
\* ------------------------------------------------------------------------
Threads == Shards \cup {Reporter}

\* thread t is between taking and releasing self.lock
InSection(t) ==
    IF t = Reporter
    THEN rpc \in {"windows", "print"}
    ELSE pc[t] \in {"stats", "windows", "print"}

\* print_analytics has read the totals and the windows
SnapshotTaken == snap.stats # <<>> /\ snap.windows # <<>>

\* C1: a snapshot never reflects a window entry whose added_at is earlier
\* than the time of the snapshot minus window_size, also when nothing has
\* been appended for longer than window_size.
C1_SnapshotWithinWindow ==
    \A i \in 1..Len(snap.windows) :
        \A t \in snap.windows[i].added_at :
            t >= snap.windows[i].at - window_size

\* C4: every thread that is updating the shared state or reading a snapshot
\* holds self.lock, so at most one thread is inside such a section.
C4_MutualExclusion ==
    /\ \A t \in Threads : InSection(t) => lock = t
    /\ Cardinality({t \in Threads : InSection(t)}) <= 1

\* A poller updates the windows while another poller, whose next record
\* decodes, and the sleeping reporter are kept out.
C4_Witness ==
    \E s, t \in Shards :
        /\ s # t
        /\ pc[s] = "windows"
        /\ pc[t] = "record"
        /\ records[t][1].ok
        /\ rpc = "sleep"

\* C5: a snapshot observes every record fully applied or not at all: the
\* records counted in total_reviews are the ones counted in
\* sentiment_distribution and in rating_distribution and the ones that have
\* been appended to the windows.
C5_SnapshotConsistent ==
    SnapshotTaken =>
        LET totals == snap.stats[1]
        IN  /\ totals.total_reviews = SumDict(totals.sentiment_distribution)
            /\ totals.total_reviews = SumDict(totals.rating_distribution)
            /\ totals.total_reviews = snap.windows[1].appended

\* process_record of shard s ends by an exception in this step
Raises(s) ==
    \/ /\ pc[s] = "record"
       /\ handed'[s] # handed[s]
       /\ pc'[s] # "stats"
    \/ /\ pc[s] \in {"stats", "windows"}
       /\ pc'[s] \notin {"stats", "windows", "print"}

\* C6: a process_record call that fails leaves stats, business_mentions and
\* the three windows as they were before the call.
C6_FailedAppendLeavesState ==
    [][\A s \in Shards :
          Raises(s) => shared' = IF pc[s] = "record" THEN shared ELSE saved]_vars

\* the label the rating alone gives
StarLabel(stars) ==
    IF stars \in {1, 2} THEN "negative"
    ELSE IF stars = 3 THEN "neutral"
    ELSE "positive"

\* C8: the final sentiment label depends on stars only: 1 and 2 give
\* negative, 3 gives neutral, 4 and 5 give positive, whatever the text; final
\* always equals star_based.
C8_LabelFromStars ==
    \A i \in 1..Len(review_window) :
        LET entry == review_window[i]
        IN  /\ entry.sentiment.final = entry.sentiment.star_based
            /\ entry.stars \in 1..5 =>
                   entry.sentiment.final = StarLabel(entry.stars)

\* An entry whose text polarity falls in another bucket than its rating, for
\* a low and for a high rating.
C8_Witness ==
    /\ \E i \in 1..Len(review_window) :
          /\ review_window[i].stars <= 2
          /\ review_window[i].sentiment.text_score > 1
    /\ \E i \in 1..Len(review_window) :
          /\ review_window[i].stars >= 4
          /\ review_window[i].sentiment.text_score < -1

Occurrences(items, x) == Cardinality({i \in 1..Len(items) : items[i] = x})

FirstSeen(items, x) ==
    CHOOSE i \in 1..Len(items) :
        items[i] = x /\ \A j \in 1..(i - 1) : items[j] # x

Distinct(items) == {items[i] : i \in 1..Len(items)}

\* x comes before y: more occurrences, or as many and seen first
Precedes(items, x, y) ==
    \/ Occurrences(items, x) > Occurrences(items, y)
    \/ /\ Occurrences(items, x) = Occurrences(items, y)
       /\ FirstSeen(items, x) < FirstSeen(items, y)

\* top is the k items of highest count, counts descending, first seen first
IsTopK(items, top, k) ==
    /\ Len(top) = Min(k, Cardinality(Distinct(items)))
    /\ \A i \in 1..Len(top) :
          /\ top[i][1] \in Distinct(items)
          /\ top[i][2] = Occurrences(items, top[i][1])
    /\ \A i, j \in 1..Len(top) : i < j => Precedes(items, top[i][1], top[j][1])
    /\ \A x \in Distinct(items) :
          (\A i \in 1..Len(top) : top[i][1] # x) =>
              \A i \in 1..Len(top) : Precedes(items, top[i][1], x)

\* C9: get_trending_words and get_trending_businesses return the k entries
\* of highest count over the current window, in descending count order and
\* among equal counts in first-seen order.
C9_TopK ==
    \A k \in 1..MaxK :
        /\ IsTopK(AllWords(word_window),
                  get_trending_words(word_window, k), k)
        /\ IsTopK(RecentBusinesses(review_window),
                  get_trending_businesses(review_window, k), k)

\* Counts 2, 2, 1 first seen in that order with k = 2: the tie is inside the
\* result; and a window whose first-seen term has fewer occurrences than a
\* later one.
C9_Witness ==
    LET counts == Counter(AllWords(word_window))
    IN  /\ Len(counts) >= 3
        /\ counts[1][2] = 2 /\ counts[2][2] = 2 /\ counts[3][2] = 1
        /\ get_trending_words(word_window, 2) = <<counts[1], counts[2]>>
        /\ Len(Counter(RecentBusinesses(review_window))) = 2
        /\ Counter(RecentBusinesses(review_window))[1][2]
               = Counter(RecentBusinesses(review_window))[2][2]

RECURSIVE TotalRecords(_)
TotalRecords(shards) ==
    IF shards = {} THEN 0
    ELSE LET s == CHOOSE x \in shards : TRUE
         IN  Len(shardData[s]) + TotalRecords(shards \ {s})

\* every record in the log is the five-star review "great food"
AllGreatFood ==
    \A s \in Shards : \A i \in 1..Len(shardData[s]) :
        LET rec == shardData[s][i]
        IN  rec.ok /\ ~rec.nan /\ rec.hashable /\ rec.stars = 5
            /\ rec.text = GreatFood

AllClosed == \A s \in Shards : pc[s] = "closed"

\* C10: N five-star "great food" records over several partitions, no fetch
\* error and no eviction: once every poller has closed, total_reviews = N,
\* the window holds N entries with positive ratio 1, and each of the two
\* terms has count N.
C10_EndToEnd ==
    (AllGreatFood /\ fetchErr = {} /\ iterErr = {} /\ evicted = 0 /\ AllClosed) =>
        LET N == TotalRecords(Shards)
        IN  /\ stats.total_reviews = N
            /\ Len(review_window) = N
            /\ get_sentiment_trends(review_window)[1].window_size = N
            /\ get_sentiment_trends(review_window)[1].positive_ratio = <<N, N>>
            /\ get_trending_words(word_window, TopWords)
                   = <<<<"great", N>>, <<"food", N>>>>

\* All pollers closed in that scenario, with records in more than one shard.
C10_Witness ==
    /\ AllGreatFood /\ fetchErr = {} /\ iterErr = {} /\ evicted = 0 /\ AllClosed
    /\ TotalRecords(Shards) >= 4
    /\ Cardinality({s \in Shards : shardData[s] # <<>>}) >= 3

\* the records of shard s that process_record appends to the windows
Appendable(s) ==
    Len(SelectSeq(shardData[s],
                  LAMBDA rec : rec.ok /\ ~rec.nan
                               /\ (rec.business_id = "" \/ rec.hashable)))

\* every call the poller of shard s has made to the log has returned
NoError(s) == s \notin fetchErr /\ s \notin iterErr

\* the poller of shard s has closed with its records applied
ClosedAndApplied(s) ==
    /\ pc[s] = "closed"
    /\ handed[s] = Len(shardData[s])
    /\ appended[s] = Appendable(s)

\* C3 as stated: when the get_records call of one shard b always raises
\* and the calls of the other pollers succeed, every other poller reaches
\* Closed with its records applied and the poller of b reaches Failed.
C3_Isolation ==
    \A b \in Shards :
        [](b \notin fetchOk /\ \A s \in Shards \ {b} : NoError(s))
            => /\ <>(pc[b] = "failed")
               /\ \A s \in Shards \ {b} : <>ClosedAndApplied(s)

\* C3, amended: a poller whose get_records call always raises never reaches
\* Closed, and it is Failed exactly when a get_shard_iterator call of its
\* shard has raised; a poller whose calls all succeed reaches Closed, with
\* every record of its shard handed to process_record and every record that
\* process_record can handle appended to the windows.
C3_IsolationAmended ==
    /\ [](\A b \in Shards :
             /\ (b \notin fetchOk => pc[b] # "closed")
             /\ (pc[b] = "failed" <=> b \in iterErr))
    /\ <>(\A s \in Shards : ~NoError(s) \/ pc[s] = "closed")
    /\ [](\A s \in Shards :
             (s \notin fetchErr /\ pc[s] = "closed") => ClosedAndApplied(s))

\* One shard's fetches have all raised and it is polling again with a new
\* cursor, while the two others, both with records, have closed and a
\* record of theirs is in the windows.
C3_Witness ==
    \E b \in Shards :
        /\ b \in fetchErr /\ b \notin fetchOk /\ pc[b] = "fetch"
        /\ \A s \in Shards \ {b} :
              /\ s \notin fetchErr /\ pc[s] = "closed"
              /\ shardData[s] # <<>>
              /\ handed[s] = Len(shardData[s])
        /\ \E s \in Shards \ {b} : appended[s] > 0

\* ------------------------------------------------------------------------
\* Properties of the producer
\* ------------------------------------------------------------------------
\* C2: whenever send_batch is not running, total_sent is the number of
\* records the stream has accepted from this producer: a batch of B records
\* adds exactly B, whichever of them failed on some attempts.
C2_SentEqualsAccepted ==
    ppc # "send" => total_sent = Len(log)

\* the reviews process_yelp_reviews passes on when it is given these lines
RECURSIVE Emitted(_, _, _)
Emitted(ls, cap, n) ==
    IF ls = <<>> THEN <<>>
    ELSE IF Blank(Head(ls)) THEN Emitted(Tail(ls), cap, n)
    ELSE IF CapReached(cap, n) THEN <<>>
    ELSE IF Invalid(Head(ls)) THEN Emitted(Tail(ls), cap, n)
    ELSE <<processed_review(Head(ls))>> \o Emitted(Tail(ls), cap, n + 1)

\* what the reader passes to add_to_batch when the body is one chunk
Unsplit ==
    LET split == Split(Utf8Decode(source))
    IN  Emitted(SubSeq(split, 1, Len(split) - 1), max_records, 0)

\* C7: however the body is split into chunks, the reader passes the same
\* sequence of records to add_to_batch as for a single unsplit chunk.
C7_SplitInvariant ==
    (ppc = "done" /\ ~readErr) => added = Unsplit
\* C11: the pending batch record_batch never holds more than batch_size
\* records, whatever the add_to_batch calls and the put_records outcomes.
C11_BatchBounded ==
    Len(record_batch) <= batch_size

\* the elements of a sequence
Range(seq) == {seq[i] : i \in 1..Len(seq)}

\* s is t with some of its elements left out, the others in t's order
IsSubSeq(s, t) == \E keep \in SUBSET (1..Len(t)) : Pick(t, keep) = s

\* C12: a put_records call leaves in record_batch exactly the records of
\* the batch the stream did not accept, in their original order, and no
\* record the stream accepted stays in the batch to be submitted again.
C12_ResubmitFailedOnly ==
    [][ppc = "send" =>
          /\ IsSubSeq(record_batch', record_batch)
          /\ Range(record_batch') = Range(record_batch) \ Range(log')
          /\ Len(record_batch) = Len(record_batch') + (Len(log') - Len(log))]_vars

\* A retry is pending: part of a batch is in the stream and the rest, more
\* than one record, is the batch of the next put_records call.
C12_Witness ==
    /\ ppc = "send"
    /\ log = <<BatchRecord(processed_review(<<"b">>))>>
    /\ record_batch = <<BatchRecord(processed_review(<<"a">>)),
                        BatchRecord(processed_review(<<"c">>))>>

\* C13: a call of send_batch ends only when a put_records call has yielded
\* no failure: when it returns, record_batch is empty.
C13_SendEndsEmpty ==
    [][(ppc = "send" /\ ppc' # "send") => record_batch' = <<>>]_vars

\* ------------------------------------------------------------------------
\* Properties of consume_stream
\* ------------------------------------------------------------------------
\* C14: consume_stream has returned only when every shard's poller is
\* Closed or Failed, or when it was interrupted from outside.
C14_ReturnsWhenAllEnded ==
    (main # "join") =>
        \/ \A s \in Shards : pc[s] \in {"closed", "failed"}
        \/ main = "interrupted"

\* consume_stream has returned without an interrupt, with a poller Closed
\* after handling a record and another one Failed
C14_Witness ==
    /\ main = "returned"
    /\ \E s \in Shards : pc[s] = "closed" /\ handed[s] > 0
    /\ \E s \in Shards : pc[s] = "failed"

\* C16: when the consumer is interrupted, no poller is stopped in the
\* middle of applying a record: each one stops between two records.
C16_StopsBetweenRecords ==
    main = "interrupted" =>
        \A s \in Shards : pc[s] \notin {"stats", "windows", "print"}

\* ------------------------------------------------------------------------
\* Properties of process_shard
\* ------------------------------------------------------------------------
\* the place in shard s of the record with this timestamp (the records of a
\* scenario have distinct timestamps)
PlaceOf(s, ts) ==
    {i \in 1..Len(shardData[s]) : shardData[s][i].ts = ts}

\* the entries of a window that come from one shard are in the shard's order
InShardOrder(window) ==
    \A s \in Shards : \A i, j \in 1..Len(window) :
        i < j => \A a \in PlaceOf(s, window[i].timestamp) :
                     \A b \in PlaceOf(s, window[j].timestamp) : a < b

\* C15: the record a poller hands to process_record is the first of the
\* current fetch, the one that follows in the shard the records it handed
\* before, and each window holds the entries of one shard in that order.
C15_FetchOrder ==
    [][\A s \in Shards :
          /\ handed'[s] # handed[s] =>
                 PlaceOf(s, records[s][1].ts) = {handed[s] + 1}
          /\ InShardOrder(review_window')
          /\ InShardOrder(word_window')
          /\ InShardOrder(rating_window')]_vars

\* The two records of shard-0 are in the windows in their order, with a
\* record of another shard between them.
C15_Witness ==
    /\ Len(review_window) = 3
    /\ review_window[1].timestamp = 1
    /\ review_window[2].timestamp \in {3, 4}
    /\ review_window[3].timestamp = 2
    /\ handed["shard-0"] = 2

\* the position LATEST stands for: after the last record of the shard
Latest(s) == <<Len(shardData[s])>>

\* C17: a poller whose fetch raised asks for a cursor at the latest
\* position and goes on polling with it; it becomes Failed after a fetch
\* error exactly when that request raises too.  When a fetch returned and
\* its records are processed, the cursor is the next cursor it returned.
C17_FetchErrorHandling ==
    [][\A s \in Shards :
          /\ (pc[s] \in {"fetch", "record", "stats", "windows", "print"})
                 => pc'[s] # "failed"
          /\ (pc[s] = "reacquire" /\ pc'[s] # "reacquire") =>
                 \/ /\ pc'[s] = "fetch"
                    /\ cursor'[s] = Latest(s)
                    /\ s \notin iterErr'
                 \/ /\ pc'[s] = "failed"
                    /\ s \in iterErr'
          /\ (/\ pc[s] \in {"fetch", "record", "stats", "windows", "print"}
              /\ pc'[s] \in {"fetch", "closed"}
              /\ (pc'[s] # pc[s] \/ nextIter'[s] # nextIter[s]))
                 => cursor'[s] = nextIter'[s]]_vars

\* A poller is polling again with the latest cursor after a fetch that
\* raised, having processed a record of an earlier fetch that returned.
C17_Witness ==
    \E s \in Shards :
        /\ pc[s] = "fetch"
        /\ s \in fetchErr /\ s \in fetchOk
        /\ handed[s] > 0 /\ handed[s] < Len(shardData[s])
        /\ cursor[s] = Latest(s)
        /\ \E r \in Shards \ {s} : pc[r] = "failed" /\ r \in fetchErr

\* the poller of s is between a fetch that returned and the next one
InCycle(s) == pc[s] \in {"fetch", "record", "stats", "windows", "print"}

\* the poller of s has taken this step
Stepped(s) ==
    \/ pc'[s] # pc[s]
    \/ nextIter'[s] # nextIter[s]
    \/ records'[s] # records[s]
    \/ handed'[s] # handed[s]

\* C18: a poller becomes Closed exactly when a fetch that returned gave no
\* next cursor and the records of that fetch have all gone through
\* process_record, one at a time; once Closed it fetches nothing more.
C18_ClosedAtEndOfShard ==
    [][\A s \in Shards :
          /\ (pc[s] # "closed" /\ pc'[s] = "closed") =>
                 /\ InCycle(s)
                 /\ s \in fetchOk'
                 /\ nextIter'[s] = <<>>
                 /\ records'[s] = <<>>
          /\ (InCycle(s) /\ Stepped(s) /\ pc'[s] = "fetch") =>
                 nextIter'[s] # <<>>
          /\ (InCycle(s) /\ pc[s] # "fetch" /\ records'[s] # records[s]) =>
                 /\ records'[s] = Tail(records[s])
                 /\ pc[s] = "record" => handed'[s] = handed[s] + 1
          /\ pc[s] = "closed" =>
                 /\ pc'[s] = "closed"
                 /\ records'[s] = <<>>
                 /\ cursor'[s] = <<>>
                 /\ handed'[s] = handed[s]]_vars

\* A poller has closed after a last fetch of two records, both handed to
\* process_record, while another poller is still polling.
C18_Witness ==
    /\ pc["shard-0"] = "closed"
    /\ "shard-0" \notin fetchErr
    /\ handed["shard-0"] = 2
    /\ appended["shard-0"] = 2
    /\ \E s \in Shards : pc[s] = "fetch"

\* C19: when process_record fails on a record, the failure stays inside
\* it: the lock is free again, the poller is not Failed, and it goes on
\* with the next record of the fetch or, after the last one, with the next
\* cursor.
C19_RecordFailureContained ==
    [][\A s \in Shards :
          Raises(s) =>
              /\ lock' # s
              /\ records'[s] = Tail(records[s])
              /\ IF records'[s] # <<>>
                 THEN pc'[s] = "record"
                 ELSE /\ cursor'[s] = nextIter[s]
                      /\ pc'[s] = IF nextIter[s] = <<>> THEN "closed" ELSE "fetch"]_vars

\* After a record whose stars are not a number, the next record of the same
\* fetch has been appended to the windows and the poller has closed; the
\* poller of the shard with two records that fail has closed too.
C19_Witness ==
    /\ shardData["shard-0"][1].nan
    /\ handed["shard-0"] = 2
    /\ appended["shard-0"] = 1
    /\ pc["shard-0"] = "closed"
    /\ handed["shard-1"] = 2
    /\ appended["shard-1"] = 0
    /\ pc["shard-1"] = "closed"

\* the complete lines of the body
CompleteLines ==
    LET split == Split(Utf8Decode(source))
    IN  SubSeq(split, 1, Len(split) - 1)

\* the complete lines that hold a review
WellFormed(line) == ~Blank(line) /\ ~Invalid(line)

\* how many reviews the reader is to pass on: every well-formed complete
\* line, up to the cap when there is one
Expected ==
    LET n == Len(SelectSeq(CompleteLines, WellFormed))
    IN  IF max_records = 0 THEN n ELSE Min(max_records, n)

\* C20: a malformed line (one json.loads rejects) is never passed to
\* add_to_batch, is in no batch
\* and is not sent, and it does not stop the reader: when the reader has
\* finished without a read error it has passed on every well-formed
\* complete line, those after a malformed line included.
C20_MalformedLineSkipped ==
    /\ \A i \in 1..Len(added) : WellFormed(added[i].text)
    /\ \A i \in 1..Len(record_batch) : WellFormed(record_batch[i].Data.text)
    /\ \A i \in 1..Len(log) : WellFormed(log[i].Data.text)
    /\ (ppc = "done" /\ ~readErr) => Len(added) = Expected

\* The reader has finished a body with a malformed line between two
\* reviews, and both reviews are in the stream.
C20_Witness ==
    /\ ppc = "done"
    /\ ~readErr
    /\ \E i \in 1..Len(CompleteLines) :
          /\ Invalid(CompleteLines[i])
          /\ \E j \in 1..Len(CompleteLines) : j > i /\ WellFormed(CompleteLines[j])
    /\ Len(added) = 2
    /\ Len(log) = 2

\* the first max_records well-formed complete lines of the body, as reviews
FirstWellFormed ==
    LET wf == SelectSeq(CompleteLines, WellFormed)
    IN  [i \in 1..Expected |-> processed_review(wf[i])]

\* C21: with a cap set, the reader never passes more than max_records
\* reviews to add_to_batch, blank and malformed lines do not count, and
\* when it has finished it has passed on exactly the first max_records
\* well-formed lines of the body.
C21_CapFirstLines ==
    max_records # 0 =>
        /\ Len(added) <= max_records
        /\ records_processed = Len(added)
        /\ (ppc = "done" /\ ~readErr) => added = FirstWellFormed

\* ------------------------------------------------------------------------
\* Properties of the snapshot and of the windows
\* ------------------------------------------------------------------------
\* C22: print_analytics changes nothing: each of its steps, and every step
\* taken while it holds the lock, leaves stats, business_mentions and the
\* three windows as they were.
C22_SnapshotReadOnly ==
    [][(rpc' # rpc \/ lock = Reporter) => shared' = shared]_vars

\* print_analytics has read the totals and the windows of a store that
\* holds two entries, one of them older than window_size
C22_Witness ==
    /\ rpc = "print"
    /\ SnapshotTaken
    /\ Len(review_window) = 2
    /\ review_window[1].added_at < clock - window_size
    /\ stats.total_reviews >= 2

\* the three windows
Windows == <<review_window, word_window, rating_window>>

\* added_at does not decrease from the head to the tail
Fifo(window) ==
    \A i, j \in 1..Len(window) : i < j => window[i].added_at <= window[j].added_at

\* s is what is left of t when entries are taken from its head
IsSuffix(s, t) ==
    Len(s) <= Len(t) /\ s = SubSeq(t, Len(t) - Len(s) + 1, Len(t))

\* after is before with at most one entry added at the tail and then any
\* number of entries removed from the head
TailInHeadOut(before, after) ==
    \/ IsSuffix(after, before)
    \/ /\ after # <<>>
       /\ IsSuffix(after, Append(before, after[Len(after)]))

\* C23: each window is in the order of ingestion, a step adds an entry only
\* at the tail, and it removes entries only from the head.
C23_WindowsFifo ==
    [][\A w \in 1..3 :
          /\ Fifo(Windows'[w])
          /\ TailInHeadOut(Windows[w], Windows'[w])]_vars

\* Two appends at a later time have evicted the two older entries from the
\* head of each window and are now its only entries.
C23_Witness ==
    /\ evicted = 2
    /\ \A w \in 1..3 :
          /\ Len(Windows[w]) = 2
          /\ Windows[w][1].added_at > window_size

\* C24: when process_record has appended a record and is about to release
\* the lock, the entry of that record is the tail of each of the three
\* windows, and no window holds an entry added more than window_size before
\* it.
C24_AppendThenEvict ==
    \A s \in Shards :
        pc[s] = "print" =>
            \A w \in 1..3 :
                LET window == Windows[w]
                IN  /\ window # <<>>
                    /\ window[Len(window)].timestamp = records[s][1].ts
                    /\ \A i \in 1..Len(window) :
                          window[i].added_at >=
                              window[Len(window)].added_at - window_size

\* process_record has appended a record later than window_size after two
\* others, which it has evicted, and still holds the lock.
C24_Witness ==
    \E s \in Shards :
        /\ pc[s] = "print"
        /\ lock = s
        /\ evicted = 2
        /\ Len(review_window) = 1
        /\ review_window[1].added_at = window_size + 1

\* ------------------------------------------------------------------------
\* The aggregate state as a function of the records alone
\* ------------------------------------------------------------------------
\* the places <<shard, index>> of the records of the log
Places == {p \in Shards \X (1..MaxK + 1) : p[2] <= Len(shardData[p[1]])}

RecordAt(p) == shardData[p[1]][p[2]]

\* process_record gets as far as the counters with this record, as far as
\* rating_distribution, and as far as the windows
Counted(rec) == rec.ok
Rated(rec) == rec.ok /\ ~rec.nan
Windowed(rec) == Rated(rec) /\ (rec.business_id = "" \/ rec.hashable)

\* d[k] read without inserting the key
Get(d, k) == IF k \in DOMAIN d THEN d[k] ELSE 0

\* the number of terms of the counted records of one shard
WordsOf(seq) ==
    LET F[i \in 0..Len(seq)] ==
            IF i = 0 THEN 0
            ELSE F[i - 1] + IF Counted(seq[i])
                            THEN Len(preprocess_text(seq[i].text)) ELSE 0
    IN  F[Len(seq)]

\* the entries of a window without their time of ingestion, as the set of
\* their places in the window
SameEntry(entry, fields) ==
    \A f \in DOMAIN fields : entry[f] = fields[f]

\* the window holds one entry for each record that reaches the windows, and
\* nothing else (the records of a scenario have distinct timestamps)
HoldsExactly(window, Fields(_)) ==
    /\ Len(window) = Cardinality({p \in Places : Windowed(RecordAt(p))})
    /\ \A p \in Places :
          Windowed(RecordAt(p)) =>
              \E i \in 1..Len(window) : SameEntry(window[i], Fields(RecordAt(p)))

ReviewFields(rec) ==
    [timestamp |-> rec.ts, sentiment |-> analyze_review_sentiment(rec),
     stars |-> rec.stars, business_id |-> rec.business_id]

WordFields(rec) == [timestamp |-> rec.ts, words |-> preprocess_text(rec.text)]

RatingFields(rec) == [timestamp |-> rec.ts, stars |-> rec.stars]

\* every poller has closed without a fetch error, and nothing was evicted
QuietEnd ==
    AllClosed /\ fetchErr = {} /\ iterErr = {} /\ evicted = 0

\* C25: without fetch errors and eviction, the totals, the two
\* distributions and the contents of the windows at the end are determined
\* by the records of the shards, whatever the interleaving of the pollers.
C25_OrderInsensitive ==
    QuietEnd =>
        /\ stats.total_reviews = Cardinality({p \in Places : Counted(RecordAt(p))})
        /\ stats.total_words =
               WordsOf(shardData["shard-0"]) + WordsOf(shardData["shard-1"])
                   + WordsOf(shardData["shard-2"])
        /\ \A label \in {"positive", "neutral", "negative"} :
              Get(stats.sentiment_distribution, label) =
                  Cardinality({p \in Places :
                      /\ Counted(RecordAt(p))
                      /\ analyze_review_sentiment(RecordAt(p)).final = label})
        /\ \A stars \in 0..5 :
              Get(stats.rating_distribution, stars) =
                  Cardinality({p \in Places :
                      Rated(RecordAt(p)) /\ RecordAt(p).stars = stars})
        /\ HoldsExactly(review_window, ReviewFields)
        /\ HoldsExactly(word_window, WordFields)
        /\ HoldsExactly(rating_window, RatingFields)

\* Every poller has closed without an error, and the record of the last
\* shard was appended first and the first record of the first shard last.
C25_Witness ==
    /\ QuietEnd
    /\ stats.total_reviews = 4
    /\ Len(review_window) = 4
    /\ review_window[1].timestamp = 4
    /\ review_window[4].timestamp = 1

\* ------------------------------------------------------------------------
\* What a thread does while it holds the lock
\* ------------------------------------------------------------------------
\* thread t is at a call of the Kinesis client
AtKinesisCall(t) ==
    t \in Shards /\ pc[t] \in {"start", "fetch", "reacquire"}

\* thread t is at its print calls: lines 152-155 for a poller, lines
\* 203-254 for the analytics thread
AtOutput(t) ==
    \/ t \in Shards /\ pc[t] = "print"
    \/ t = Reporter /\ rpc \in {"windows", "print"}

\* C26: a thread that holds the lock is neither at a call of the Kinesis
\* client nor at its output.
C26_NoIoUnderLock ==
    \A t \in Threads : lock = t => ~AtKinesisCall(t) /\ ~AtOutput(t)

\* C27: total_sent never decreases, whatever put_records answers or raises.
C27_TotalSentMonotonic ==
    [][total_sent' >= total_sent]_vars

\* The producer has ended after two sends were counted, one of them the
\* retry of a record that had failed: three records are in the stream and
\* two are counted.
C27_Witness ==
    /\ ppc = "done"
    /\ total_sent = 2
    /\ Len(log) = 3

\* every bucket of the histogram d is in e, with a count at least as large
BucketsGrow(d, e) ==
    \A k \in DOMAIN d : k \in DOMAIN e /\ e[k] >= d[k]

\* C28: total_reviews, total_words and every bucket of the two
\* distributions never decrease, and a step that evicts entries from the
\* windows leaves the running totals as they were.
C28_TotalsMonotonic ==
    [][/\ stats'.total_reviews >= stats.total_reviews
       /\ stats'.total_words >= stats.total_words
       /\ BucketsGrow(stats.sentiment_distribution, stats'.sentiment_distribution)
       /\ BucketsGrow(stats.rating_distribution, stats'.rating_distribution)
       /\ evicted' # evicted => stats' = stats]_vars

\* One entry has been evicted and the totals still count the three records
\* processed, of which two are in the window.
C28_Witness ==
    /\ evicted = 1
    /\ stats.total_reviews = 3
    /\ Get(stats.rating_distribution, 5) = 3
    /\ Len(review_window) = 2

\* the records that are in the batch or in the stream
Queued == Range(record_batch) \cup Range(log)

\* C29: the partition key of a record is the first ten characters of its
\* user_id, so that two records of one user have the same key in whatever
\* batch, at whatever position and after whatever retry they are sent.
C29_PartitionKeyOfUser ==
    /\ \A r \in Queued :
          LET uid == r.Data.user_id
              key == r.PartitionKey
          IN  /\ Len(key) = Min(KeyLen, Len(uid))
              /\ \A i \in 1..Len(key) : key[i] = uid[i]
    /\ \A r1, r2 \in Queued :
          r1.Data.user_id = r2.Data.user_id => r1.PartitionKey = r2.PartitionKey

\* Two records of one user are in the stream, the first sent in a full
\* batch and the second in the last one, after another record had failed
\* and was sent again; the key is shorter than the identifier.
C29_Witness ==
    /\ ppc = "done"
    /\ Len(log) = 3
    /\ total_sent = 2
    /\ log[1].Data.user_id = log[3].Data.user_id
    /\ log[2].Data.user_id # log[1].Data.user_id
    /\ Len(log[1].PartitionKey) < Len(log[1].Data.user_id)

\* ------------------------------------------------------------------------
\* The snapshot against the entries of the windows
\* ------------------------------------------------------------------------
\* the occurrences of term in the term lists of the window
TermCount(term) ==
    LET F[i \in 0..Len(word_window)] ==
            IF i = 0 THEN 0
            ELSE F[i - 1] + Occurrences(word_window[i].words, term)
    IN  F[Len(word_window)]

Terms == UNION {Distinct(word_window[i].words) : i \in 1..Len(word_window)}

\* the entries of review_window of business b, and of sentiment label
EntriesOf(b) == {i \in 1..Len(review_window) : review_window[i].business_id = b}

Labelled(label) ==
    {i \in 1..Len(review_window) : review_window[i].sentiment.final = label}

Businesses ==
    {review_window[i].business_id : i \in 1..Len(review_window)} \ {""}

\* the table has one row for each key of keys, with the count Count gives,
\* up to top_n rows
IsTable(table, keys, Count(_), top_n) ==
    /\ Len(table) = Min(top_n, Cardinality(keys))
    /\ \A i, j \in 1..Len(table) : i # j => table[i][1] # table[j][1]
    /\ \A i \in 1..Len(table) :
          table[i][1] \in keys /\ table[i][2] = Count(table[i][1])

\* the sum of the counts of a table
PairSum(table) ==
    LET F[i \in 0..Len(table)] == IF i = 0 THEN 0 ELSE F[i - 1] + table[i][2]
    IN  F[Len(table)]

BusinessCount(b) == Cardinality(EntriesOf(b))

LabelCount(label) == Cardinality(Labelled(label))

\* C30: what print_analytics has read is the aggregate of the entries that
\* are in the windows: each term with the number of its occurrences, each
\* business with the number of entries that name it, a sentiment
\* distribution that sums to the number of entries, positive_ratio as the
\* positive entries over that number, and no trends for an empty window.
C30_SnapshotIsAggregate ==
    (rpc = "print" /\ SnapshotTaken) =>
        LET view == snap.windows[1]
        IN  /\ IsTable(view.trending_words, Terms, TermCount, TopWords)
            /\ IsTable(view.trending_biz, Businesses, BusinessCount, TopBusinesses)
            /\ IF review_window = <<>>
               THEN view.trends = <<>>
               ELSE /\ view.trends # <<>>
                    /\ LET trends == view.trends[1]
                       IN  /\ trends.window_size = Len(review_window)
                           /\ IsTable(trends.distribution,
                                      {l \in {"positive", "neutral", "negative"} :
                                          Labelled(l) # {}},
                                      LabelCount, 3)
                           /\ PairSum(trends.distribution) = trends.window_size
                           /\ trends.positive_ratio =
                                  <<LabelCount("positive"), trends.window_size>>
                           /\ trends.average_stars =
                                  <<SumStars(review_window), trends.window_size>>

\* A snapshot of a window of four entries, one of them without a business.
C30_Witness ==
    /\ rpc = "print"
    /\ SnapshotTaken
    /\ Len(review_window) = 4
    /\ EntriesOf("") # {}
    /\ snap.windows[1].trending_biz = <<(<<"b1", 3>>)>>
    /\ snap.windows[1].trends[1].positive_ratio = <<4, 4>>

\* the place of a review among those passed to add_to_batch, which is its
\* place among the well-formed lines read from the source
ReadAt(review) == CHOOSE i \in 1..Len(added) : added[i] = review

\* C31: two records of one user are in the stream in the order in which
\* they were read from the source.
C31_OwnerOrder ==
    \A i, j \in 1..Len(log) :
        (i < j /\ log[i].Data.user_id = log[j].Data.user_id) =>
            ReadAt(log[i].Data) < ReadAt(log[j].Data)

\* the reviews the stream has accepted
Delivered == {log[i].Data : i \in 1..Len(log)}

\* C32: when process_yelp_reviews has returned, the batch is empty and every
\* review passed to add_to_batch is in the stream.
C32_NothingUndelivered ==
    ppc = "done" =>
        /\ record_batch = <<>>
        /\ \A i \in 1..Len(added) : added[i] \in Delivered

\* s is the beginning of t
IsPrefix(s, t) == Len(s) <= Len(t) /\ s = SubSeq(t, 1, Len(s))

\* a send_batch call ends and the stream has accepted nothing in its last
\* put_records call: the call raised
SendRaised == ppc = "send" /\ ppc' # "send" /\ log' = log

\* C33: when put_records raises, send_batch returns to its caller with
\* record_batch and total_sent as they were, and outside send_batch the
\* batch only grows at its end, so that the records left behind are at the
\* head of the batch of the next put_records call.
C33_RaiseKeepsBatch ==
    [][/\ SendRaised =>
             /\ record_batch' = record_batch
             /\ total_sent' = total_sent
             /\ ppc' = (IF caller = "lines" THEN "lines" ELSE "done")
       /\ ppc # "send" => IsPrefix(record_batch, record_batch')]_vars

\* A put_records call has raised on a full batch, and the next record has
\* been added behind it: the next call is about to send all of them.
C33_Witness ==
    /\ ppc = "send"
    /\ caller = "lines"
    /\ log = <<>>
    /\ Len(record_batch) = batch_size + 1
    /\ SubSeq(added, 1, Len(record_batch)) =
           [i \in 1..Len(record_batch) |-> record_batch[i].Data]

\* every line of the body, the one after the last newline included
AllLines == Split(Utf8Decode(source))

\* the reviews of the well-formed lines of the body, in their order
EveryReview ==
    LET wf == SelectSeq(AllLines, WellFormed)
    IN  [i \in 1..Len(wf) |-> processed_review(wf[i])]

\* C34: without a cap the reader, when it has finished without a read
\* error, has passed every well-formed line of the body to add_to_batch
\* once and in order, the line after the last newline included.
C34_EveryLineOnce ==
    (max_records = 0 /\ ppc = "done" /\ ~readErr) => added = EveryReview

\* C35: when the poller of a shard has reached the end of the shard, every
\* record of the shard has been passed to process_record.
C35_ClosedMeansAllHanded ==
    \A s \in Shards : pc[s] = "closed" => handed[s] = Len(shardData[s])

\* C36: the records of a shard are passed to process_record one after the
\* other from the first: the n-th record passed is the n-th record of the
\* shard, so that no record is passed twice, whatever the fetches return
\* and wherever a fetch fails.
C36_HandedOnce ==
    [][\A s \in Shards :
          handed'[s] # handed[s] =>
              /\ handed'[s] = handed[s] + 1
              /\ handed'[s] <= Len(shardData[s])
              /\ records[s] # <<>>
              /\ records[s][1] = shardData[s][handed'[s]]]_vars

\* A poller has passed on the first record of its shard, a later fetch has
\* failed, and the poller has gone on from the new cursor to the end.
C36_Witness ==
    \E s \in Shards :
        /\ pc[s] = "closed"
        /\ s \in fetchErr
        /\ handed[s] = 1
        /\ Len(shardData[s]) = 2

\* C37: whenever the lock is free the three windows have the same length
\* and, place by place, the same added_at.
C37_WindowsInLockstep ==
    lock = Free =>
        /\ Len(review_window) = Len(word_window)
        /\ Len(review_window) = Len(rating_window)
        /\ \A i \in 1..Len(review_window) :
              /\ review_window[i].added_at = word_window[i].added_at
              /\ review_window[i].added_at = rating_window[i].added_at

\* The lock is free after an append that evicted one entry and left three
\* in each window.
C37_Witness ==
    /\ lock = Free
    /\ evicted = 1
    /\ \A w \in 1..3 : Len(Windows[w]) = 3
    /\ review_window[1].added_at > window_size

\* C38: whenever the lock is free, total_reviews is the sum of the buckets
\* of sentiment_distribution and the sum of the buckets of
\* rating_distribution, and review_window has at most total_reviews
\* entries.
C38_TotalsAgree ==
    lock = Free =>
        /\ stats.total_reviews = SumDict(stats.sentiment_distribution)
        /\ stats.total_reviews = SumDict(stats.rating_distribution)
        /\ Len(review_window) <= stats.total_reviews

\* the poller of shard s is at the with statement of process_record
WaitingPoller(s) == pc[s] = "record" /\ records[s][1].ok

\* C39: while the consumer runs, the lock is free again and again (whoever
\* holds it releases it, also when its section fails), and no thread stays
\* for ever before the lock: again and again no poller is at its with
\* statement, and again and again the analytics thread has taken the lock
\* after its sleep.  A poller leaves its with statement, and the analytics
\* thread its sleep, only by taking the lock.
C39_LockReleased ==
    /\ []<>(lock = Free \/ ~Running)
    /\ []<>(\A s \in Shards : ~WaitingPoller(s))
    /\ []<>(rpc # "sleep" \/ ~Running)

\* The analytics thread holds the lock and a poller is at its with
\* statement, after the section of another poller has failed part-way and
\* left the lock free.
C39_Witness ==
    /\ lock = Reporter
    /\ WaitingPoller("shard-0")
    /\ pc["shard-1"] = "closed"
    /\ handed["shard-1"] = 1
    /\ appended["shard-1"] = 0

=============================================================================
